---- MODULE Spec2Model ----
(***************************************************************************)
(* A model of the `bsf oci` command (cmd/oci): platform resolution and     *)
(* artifact selection (ProcessPlatformAndConfig), the tag/name mutator     *)
(* (getNewName, hcl2nix.ModifyConfig), the build target namer              *)
(* (genOCIAttrName) and the sequential pipeline of OCICmd.Run.             *)
(*                                                                         *)
(* Go strings are sequences of one-character strings, so that              *)
(* strings.Contains, strings.Split, strings.Join and fmt.Sprintf are       *)
(* computed character by character.                                        *)
(***************************************************************************)
EXTENDS Integers, Sequences, FiniteSets, TLC

VARIABLES
    args,        \* positional arguments of the command (a sequence of labels)
    platform,    \* flag --platform (package-level variable)
    tag,         \* flag --tag
    dfSwap,      \* flag --df-swap
    devDeps,     \* flag --dev
    loadDocker,  \* flag --load-docker
    loadPodman,  \* flag --load-podman
    push,        \* flag --push
    disk,        \* the configuration document bsf.hcl (a sequence of blocks)
    dockerfile,  \* the Dockerfile: "original", "patched" or "damaged"
    conf,        \* Run's local conf (*hcl2nix.Config)
    artifact,    \* Run's local artifact
    pc,          \* the position of Run
    calls,       \* the external calls made so far, in order
    printed,     \* what was printed, in order
    exitCode,    \* -1 while running, then the exit status
    docWrites,   \* number of os.WriteFile calls on bsf.hcl
    unitIn,      \* the arguments of a function called on its own
    unitOut      \* its result

vars == <<args, platform, tag, dfSwap, devDeps, loadDocker, loadPodman, push,
          disk, dockerfile, conf, artifact, pc, calls, printed, exitCode,
          docWrites, unitIn, unitOut>>

flagVars == <<args, platform, tag, dfSwap, devDeps, loadDocker, loadPodman, push>>

---------------------------------------------------------------------------
(* Bounds of the model *)

MaxDocArtifacts == 2   \* oci blocks in the document of a pipeline run
MaxArtifacts == 3      \* oci blocks in the config handed to a function called on its own
MaxPad == 1            \* characters put before and after a platform string
MaxNameLen == 3        \* length of the generated artifact names

---------------------------------------------------------------------------
(* String literals of the source *)

LinuxAmd64 == <<"l","i","n","u","x","/","a","m","d","6","4">>
LinuxArm64 == <<"l","i","n","u","x","/","a","r","m","6","4">>
supportedPlatforms == <<LinuxAmd64, LinuxArm64>>
X86_64Linux == <<"x","8","6","_","6","4","-","l","i","n","u","x">>
Aarch64Linux == <<"a","a","r","c","h","6","4","-","l","i","n","u","x">>
UnknownArch == <<"u","n","k","n","o","w","n">>
AttrPrefix == <<"b","s","f","/",".","#","o","c","i","I","m","a","g","e","s",".">>
AttrMid == <<".","o","c","i","I","m","a","g","e","_">>
Pkgs == <<"p","k","g","s">>
DevAsDir == <<"d","e","v","-","a","s","-","d","i","r">>
RuntimeAsDir == <<"r","u","n","t","i","m","e","-","a","s","-","d","i","r">>
AppWithDevAsDir == <<"a","p","p","_","w","i","t","h","_","d","e","v","-","a","s","-","d","i","r">>
AppAsDir == <<"a","p","p","-","a","s","-","d","i","r">>
DefaultSock == <<"u","n","i","x",":","/","/","/","v","a","r","/","r","u","n","/","d","o","c","k","e","r",".","s","o","c","k">>
Colon == <<":">>
CommaSpace == <<",", " ">>
Slash == <<"/">>

(* Strings the inputs are drawn from *)
Linux == <<"l","i","n","u","x">>
Darwin == <<"d","a","r","w","i","n">>
Amd64 == <<"a","m","d","6","4">>
Arm64 == <<"a","r","m","6","4">>
LinuxAmd6 == <<"l","i","n","u","x","/","a","m","d","6">>
LinuxArm == <<"l","i","n","u","x","/","a","r","m">>
DarwinArm64 == <<"d","a","r","w","i","n","/","a","r","m","6","4">>
LinuxAmd64V8 == <<"l","i","n","u","x","/","a","m","d","6","4","/","v","8">>
Svc == <<"s","v","c">>
Web == <<"w","e","b">>
Base == <<"b","a","s","e">>
Gone == <<"g","o","n","e">>
App == <<"a","p","p">>
AppV1 == <<"a","p","p",":","v","1">>
AppV2 == <<"a","p","p",":","v","2">>
V2 == <<"v","2">>
RemoteEP == <<"t","c","p",":","/","/","r","e","m","o","t","e",":","2","3","7","5">>

---------------------------------------------------------------------------
(* package strings *)

\* strings.Contains(s, substr)
Contains(s, substr) ==
    \E i \in 0..(Len(s) - Len(substr)) : SubSeq(s, i + 1, i + Len(substr)) = substr

\* strings.Index(s, substr), 1-based; 0 when substr is not in s
Index(s, substr) ==
    IF Contains(s, substr)
    THEN CHOOSE i \in 1..(Len(s) - Len(substr) + 1) :
            /\ SubSeq(s, i, i + Len(substr) - 1) = substr
            /\ \A j \in 1..(i - 1) : SubSeq(s, j, j + Len(substr) - 1) # substr
    ELSE 0

\* strings.Split(s, sep), for a non-empty sep
RECURSIVE Split(_, _)
Split(s, sep) ==
    IF ~Contains(s, sep)
    THEN <<s>>
    ELSE LET i == Index(s, sep)
         IN  <<SubSeq(s, 1, i - 1)>> \o Split(SubSeq(s, i + Len(sep), Len(s)), sep)

\* strings.Join(elems, sep)
RECURSIVE Join(_, _)
Join(elems, sep) ==
    IF Len(elems) = 0 THEN <<>>
    ELSE IF Len(elems) = 1 THEN elems[1]
    ELSE elems[1] \o sep \o Join(Tail(elems), sep)

\* All sequences over S of length at most n
RECURSIVE SeqsUpTo(_, _)
SeqsUpTo(S, n) ==
    IF n = 0 THEN {<<>>}
    ELSE LET shorter == SeqsUpTo(S, n - 1)
         IN  shorter \cup {Append(s, x) : s \in {t \in shorter : Len(t) = n - 1}, x \in S}

---------------------------------------------------------------------------
(* package hcl2nix: the Config Model *)

\* hcl2nix.OCIArtifact{}
EmptyArtifact == [Artifact |-> <<>>, Name |-> <<>>, ImportConfigs |-> <<>>]

\* A nil error
NoErr == [kind |-> "nil", name |-> <<>>, detail |-> <<>>]

\* OCIArtifact.Validate(conf): every imported config block must be declared
\* in the Config; the result is a nil *string or a message.
MissingConfig(ec, config) ==
    {i \in 1..Len(ec.ImportConfigs) :
        \A j \in 1..Len(config.ConfigFiles) : config.ConfigFiles[j] # ec.ImportConfigs[i]}

Validate(ec, config) ==
    LET missing == MissingConfig(ec, config)
    IN  IF missing = {}
        THEN [isNil |-> TRUE, str |-> <<>>]
        ELSE [isNil |-> FALSE,
              str |-> <<"config not found: ">>
                        \o ec.ImportConfigs[CHOOSE i \in missing : \A k \in missing : i <= k]]

\* platformutils.FindPlatform(""): the operating system and architecture of
\* the host the command runs on.
FindPlatform(plat, host) == <<host.os, host.arch>>

\* The blocks gohcl.EncodeIntoBody writes for a Config: one "oci" block per
\* artifact, labelled with its Artifact, then one "config" block per overlay.
ociBlock(a) ==
    [type |-> "oci", label |-> a.Artifact, name |-> a.Name, importConfigs |-> a.ImportConfigs]

configBlock(n) ==
    [type |-> "config", label |-> n, name |-> <<>>, importConfigs |-> <<>>]

\* hcl2nix.WriteConfig(config, wr): the bytes written to wr
WriteConfig(config) ==
    [i \in 1..Len(config.OCIArtifact) |-> ociBlock(config.OCIArtifact[i])]
        \o [i \in 1..Len(config.ConfigFiles) |-> configBlock(config.ConfigFiles[i])]

\* hcl2nix.ReadConfig(src, dstErr): the Config decoded from the blocks
IsOci(b) == b.type = "oci"
IsConfig(b) == b.type = "config"
ReadConfig(src) ==
    LET ocis == SelectSeq(src, IsOci)
        cfgs == SelectSeq(src, IsConfig)
    IN  [OCIArtifact |-> [i \in 1..Len(ocis) |->
                            [Artifact |-> ocis[i].label, Name |-> ocis[i].name,
                             ImportConfigs |-> ocis[i].importConfigs]],
         ConfigFiles |-> [i \in 1..Len(cfgs) |-> cfgs[i].label]]

\* The index ModifyConfig's loop stops at: the first artifact whose Name is
\* oldName, 0 when there is none.
RECURSIVE firstNamed(_, _, _)
firstNamed(oldName, config, i) ==
    IF i > Len(config.OCIArtifact) THEN 0
    ELSE IF config.OCIArtifact[i].Name = oldName THEN i
    ELSE firstNamed(oldName, config, i + 1)

\* The Config updated in memory only: bsf.hcl is not written
ModifyConfigSkipsWrite(oldName, art, config, doc, w) ==
    LET i == firstNamed(oldName, config, 1)
        config2 == IF i # 0
                   THEN [config EXCEPT !.OCIArtifact = [config.OCIArtifact EXCEPT ![i] = art]]
                   ELSE config
    IN  [config |-> config2, wrote |-> FALSE, doc |-> doc, err |-> NoErr]

\* The document serialized before the artifact is replaced
ModifyConfigWritesStale(oldName, art, config, doc, w) ==
    LET i == firstNamed(oldName, config, 1)
        updated == i # 0
        config2 == IF updated
                   THEN [config EXCEPT !.OCIArtifact = [config.OCIArtifact EXCEPT ![i] = art]]
                   ELSE config
    IN  IF updated
        THEN [config |-> config2,
              wrote |-> TRUE,
              doc |-> CASE w = "ok" -> WriteConfig(config)
                        [] w = "denied" -> doc
                        [] OTHER -> <<>>,
              err |-> IF w = "ok" THEN NoErr
                      ELSE [kind |-> "io", name |-> <<>>, detail |-> <<>>]]
        ELSE [config |-> config2, wrote |-> FALSE, doc |-> doc, err |-> NoErr]

\* The loop without its break: every artifact named oldName is replaced
ModifyConfigReplacesAll(oldName, art, config, doc, w) ==
    LET updated == firstNamed(oldName, config, 1) # 0
        config2 == [config EXCEPT !.OCIArtifact =
                        [i \in 1..Len(config.OCIArtifact) |->
                            IF config.OCIArtifact[i].Name = oldName THEN art
                            ELSE config.OCIArtifact[i]]]
    IN  IF updated
        THEN [config |-> config2,
              wrote |-> TRUE,
              doc |-> CASE w = "ok" -> WriteConfig(config2)
                        [] w = "denied" -> doc
                        [] OTHER -> <<>>,
              err |-> IF w = "ok" THEN NoErr
                      ELSE [kind |-> "io", name |-> <<>>, detail |-> <<>>]]
        ELSE [config |-> config2, wrote |-> FALSE, doc |-> doc, err |-> NoErr]

\* The document written whether or not an artifact was replaced
ModifyConfigAlwaysWrites(oldName, art, config, doc, w) ==
    LET i == firstNamed(oldName, config, 1)
        config2 == IF i # 0
                   THEN [config EXCEPT !.OCIArtifact = [config.OCIArtifact EXCEPT ![i] = art]]
                   ELSE config
    IN  [config |-> config2,
         wrote |-> TRUE,
         doc |-> CASE w = "ok" -> WriteConfig(config2)
                   [] w = "denied" -> doc
                   [] OTHER -> <<>>,
         err |-> IF w = "ok" THEN NoErr
                 ELSE [kind |-> "io", name |-> <<>>, detail |-> <<>>]]

\* hcl2nix.ModifyConfig(oldName, artifact, config). w is the outcome of
\* os.WriteFile("bsf.hcl", ...): "ok", "denied" (nothing written) or "short"
\* (the file is truncated and the write fails).
\* The result: the Config afterwards, whether os.WriteFile was called, the
\* document afterwards and the error returned.
ModifyConfig(oldName, art, config, doc, w) ==
    LET i == firstNamed(oldName, config, 1)
        updated == i # 0
        config2 == IF updated
                   THEN [config EXCEPT !.OCIArtifact = [config.OCIArtifact EXCEPT ![i] = art]]
                   ELSE config
    IN  IF updated
        THEN [config |-> config2,
              wrote |-> TRUE,
              doc |-> CASE w = "ok" -> WriteConfig(config2)
                        [] w = "denied" -> doc
                        [] OTHER -> <<>>,
              err |-> IF w = "ok" THEN NoErr
                      ELSE [kind |-> "io", name |-> <<>>, detail |-> <<>>]]
        ELSE [config |-> config2, wrote |-> FALSE, doc |-> doc, err |-> NoErr]

---------------------------------------------------------------------------
(* package oci (cmd/oci) *)

platformFoundExact(plat) ==
    \E i \in 1..Len(supportedPlatforms) : plat = supportedPlatforms[i]

\* lines 347-353: some allowlisted platform is a substring of plat
platformFound(plat) ==
    \E i \in 1..Len(supportedPlatforms) : Contains(plat, supportedPlatforms[i])

\* The loop with an invalid artifact skipped instead of reported
RECURSIVE selectArtifactSkipInvalid(_, _, _, _, _)
selectArtifactSkipInvalid(config, plat, envName, i, envNames) ==
    IF i > Len(config.OCIArtifact)
    THEN [artifact |-> EmptyArtifact, plat |-> <<>>,
          err |-> [kind |-> "notfound", name |-> <<>>, detail |-> Join(envNames, CommaSpace)]]
    ELSE LET ec == config.OCIArtifact[i]
             errStr == Validate(ec, config)
         IN  IF ~errStr.isNil
             THEN selectArtifactSkipInvalid(config, plat, envName, i + 1, envNames)
             ELSE IF ec.Artifact = envName
             THEN [artifact |-> ec, plat |-> plat, err |-> NoErr]
             ELSE selectArtifactSkipInvalid(config, plat, envName, i + 1,
                                            Append(envNames, ec.Artifact))

\* The loop without the break at the match: every artifact is validated
RECURSIVE selectArtifactValidateAll(_, _, _, _, _)
selectArtifactValidateAll(config, plat, envName, i, envNames) ==
    IF i > Len(config.OCIArtifact)
    THEN IF \E k \in 1..Len(config.OCIArtifact) : config.OCIArtifact[k].Artifact = envName
         THEN [artifact |-> config.OCIArtifact[
                              CHOOSE k \in 1..Len(config.OCIArtifact) :
                                /\ config.OCIArtifact[k].Artifact = envName
                                /\ \A h \in 1..(k - 1) : config.OCIArtifact[h].Artifact # envName],
               plat |-> plat, err |-> NoErr]
         ELSE [artifact |-> EmptyArtifact, plat |-> <<>>,
               err |-> [kind |-> "notfound", name |-> <<>>, detail |-> Join(envNames, CommaSpace)]]
    ELSE LET ec == config.OCIArtifact[i]
             errStr == Validate(ec, config)
         IN  IF ~errStr.isNil
             THEN [artifact |-> EmptyArtifact, plat |-> <<>>,
                   err |-> [kind |-> "invalid", name |-> ec.Name, detail |-> errStr.str]]
             ELSE selectArtifactValidateAll(config, plat, envName, i + 1,
                                            Append(envNames, ec.Artifact))

\* The loop with a label gathered only once
RECURSIVE selectArtifactListsOnce(_, _, _, _, _)
selectArtifactListsOnce(config, plat, envName, i, envNames) ==
    IF i > Len(config.OCIArtifact)
    THEN [artifact |-> EmptyArtifact, plat |-> <<>>,
          err |-> [kind |-> "notfound", name |-> <<>>, detail |-> Join(envNames, CommaSpace)]]
    ELSE LET ec == config.OCIArtifact[i]
             errStr == Validate(ec, config)
         IN  IF ~errStr.isNil
             THEN [artifact |-> EmptyArtifact, plat |-> <<>>,
                   err |-> [kind |-> "invalid", name |-> ec.Name, detail |-> errStr.str]]
             ELSE IF ec.Artifact = envName
             THEN [artifact |-> ec, plat |-> plat, err |-> NoErr]
             ELSE selectArtifactListsOnce(config, plat, envName, i + 1,
                    IF \E k \in 1..Len(envNames) : envNames[k] = ec.Artifact
                    THEN envNames ELSE Append(envNames, ec.Artifact))

\* lines 358-379: the loop over conf.OCIArtifact from index i on, with the
\* labels gathered so far, and the return that follows it
RECURSIVE selectArtifact(_, _, _, _, _)
selectArtifact(config, plat, envName, i, envNames) ==
    IF i > Len(config.OCIArtifact)
    THEN [artifact |-> EmptyArtifact, plat |-> <<>>,
          err |-> [kind |-> "notfound", name |-> <<>>, detail |-> Join(envNames, CommaSpace)]]
    ELSE LET ec == config.OCIArtifact[i]
             errStr == Validate(ec, config)
         IN  IF ~errStr.isNil
             THEN [artifact |-> EmptyArtifact, plat |-> <<>>,
                   err |-> [kind |-> "invalid", name |-> ec.Name, detail |-> errStr.str]]
             ELSE IF ec.Artifact = envName
             THEN [artifact |-> ec, plat |-> plat, err |-> NoErr]
             ELSE selectArtifact(config, plat, envName, i + 1, Append(envNames, ec.Artifact))

\* ProcessPlatformAndConfig(conf, plat, envName), on the given host. The
\* platform error prints the package-level variable platform.
ProcessPlatformAndConfig(config, plat, envName, host) ==
    LET detected == FindPlatform(plat, host)
        plat1 == IF plat = <<>> THEN detected[1] \o Slash \o detected[2] ELSE plat
    IN  IF ~platformFound(plat1)
        THEN [artifact |-> EmptyArtifact, plat |-> <<>>,
              err |-> [kind |-> "platform", name |-> platform,
                       detail |-> Join(supportedPlatforms, CommaSpace)]]
        ELSE selectArtifact(config, plat1, envName, 1, <<>>)

\* The tag appended to the whole name, an old tag kept
getNewNameAppendsTag(art, tagv) ==
    [name |-> art.Name \o Colon \o tagv, err |-> NoErr]

\* getNewName(artifact, tag): the new name and the error (always nil)
getNewName(art, tagv) ==
    LET newName ==
            IF Contains(art.Name, Colon)
            THEN LET parts == Split(art.Name, Colon)
                 IN  IF Len(parts) > 0
                     THEN parts[1] \o Colon \o tagv
                     ELSE art.Name \o Colon \o tagv
            ELSE art.Name \o Colon \o tagv
    IN  [name |-> newName, err |-> NoErr]

\* An unknown platform mapped to the x86_64 architecture
genOCIAttrNameDefaultsArch(env, plat, art) ==
    LET arch == CASE plat = LinuxArm64 -> Aarch64Linux
                  [] OTHER -> X86_64Linux
        base == AttrPrefix \o arch \o AttrMid \o env \o <<"_">>
    IN  IF env = Pkgs
        THEN IF devDeps THEN base \o DevAsDir ELSE base \o RuntimeAsDir
        ELSE IF devDeps THEN base \o AppWithDevAsDir ELSE base \o AppAsDir

\* genOCIAttrName(env, platform, artifact); reads the package-level devDeps
genOCIAttrName(env, plat, art) ==
    LET arch == CASE plat = LinuxAmd64 -> X86_64Linux
                  [] plat = LinuxArm64 -> Aarch64Linux
                  [] OTHER -> UnknownArch
        base == AttrPrefix \o arch \o AttrMid \o env \o <<"_">>
    IN  IF env = Pkgs
        THEN IF devDeps THEN base \o DevAsDir ELSE base \o RuntimeAsDir
        ELSE IF devDeps THEN base \o AppWithDevAsDir ELSE base \o AppAsDir

\* modifyDockerfileWithTag(path, tag, devDeps). o is the outcome of its
\* steps: os.Open fails, builddocker.ModifyDockerfile fails, os.WriteFile
\* fails (the file may be left truncated), or all succeed.
\* The result: the Dockerfile afterwards and whether an error is returned.
modifyDockerfileWithTag(file, o) ==
    CASE o = "ok" -> [file |-> "patched", failed |-> FALSE]
      [] o = "short" -> [file |-> "damaged", failed |-> TRUE]
      [] OTHER -> [file |-> file, failed |-> TRUE]

---------------------------------------------------------------------------
(* OCICmd.Run: the inputs of a run *)

Hosts == {[os |-> Linux, arch |-> Amd64], [os |-> Linux, arch |-> Arm64],
          [os |-> Darwin, arch |-> Arm64]}

RunArtifacts ==
    {[Artifact |-> l, Name |-> n, ImportConfigs |-> ic] :
        l \in {Pkgs, Svc}, n \in {App, AppV1}, ic \in {<<Base>>, <<Gone>>}}

RunConfigs ==
    {[OCIArtifact |-> s, ConfigFiles |-> <<Base>>] :
        s \in SeqsUpTo(RunArtifacts, MaxDocArtifacts)}

\* The documents a run can find on disk
RunDocuments == {WriteConfig(c) : c \in RunConfigs}

RunArgs == {<<>>, <<Svc>>}
RunPlatforms == {<<>>, LinuxAmd64V8, DarwinArm64}
RunTags == {<<>>, V2}

\* What builddocker.GetCurrentContext can return: a context name and whether
\* it failed
DefaultCtx == <<"default">>
RemoteCtx == <<"remote">>
ContextResults ==
    {[ctx |-> <<>>, failed |-> TRUE], [ctx |-> <<>>, failed |-> FALSE],
     [ctx |-> DefaultCtx, failed |-> FALSE], [ctx |-> RemoteCtx, failed |-> FALSE]}

\* What builddocker.ReadContextEndpoints can return: a map from context names
\* to endpoints, as a list of <<context, endpoint>> pairs with distinct
\* contexts (a nil map is the empty list), and whether it failed
EndpointResults ==
    {[eps |-> <<>>, failed |-> TRUE], [eps |-> <<>>, failed |-> FALSE],
     [eps |-> <<<<RemoteCtx, RemoteEP>>>>, failed |-> FALSE],
     [eps |-> <<<<DefaultCtx, RemoteEP>>>>, failed |-> FALSE]}

\* A nil *hcl2nix.Config, before bsf.hcl is read
NilConfig == [OCIArtifact |-> <<>>, ConfigFiles |-> <<>>]

NoUnit == [fn |-> "none"]

Init ==
    /\ args \in RunArgs
    /\ platform \in RunPlatforms
    /\ tag \in RunTags
    /\ dfSwap \in BOOLEAN
    /\ devDeps \in BOOLEAN
    /\ loadDocker \in BOOLEAN
    /\ loadPodman \in BOOLEAN
    /\ push \in BOOLEAN
    /\ disk \in RunDocuments
    /\ dockerfile = "original"
    /\ conf = NilConfig
    /\ artifact = EmptyArtifact
    /\ pc = "CheckArgs"
    /\ calls = <<>>
    /\ printed = <<>>
    /\ exitCode = -1
    /\ docWrites = 0
    /\ unitIn = NoUnit
    /\ unitOut = NoUnit

---------------------------------------------------------------------------
(* OCICmd.Run: the steps *)

\* The log of the calls Run makes: the callee, whether it succeeded, the image
\* name or build attribute handed to it, and the Docker endpoint.
Logged(op, ok, nm, aux) ==
    Append(calls, [op |-> op, ok |-> ok, name |-> nm, aux |-> aux])

ExitZero(msgs) ==
    /\ printed' = printed \o msgs
    /\ exitCode' = 0
    /\ pc' = "exited"

\* fmt.Println(...); os.Exit(1)
Exit1(msgs) ==
    /\ printed' = printed \o msgs
    /\ exitCode' = 1
    /\ pc' = "exited"

\* A step that succeeded: Run goes on at `next`
GoOn(msgs, next) ==
    /\ printed' = printed \o msgs
    /\ exitCode' = exitCode
    /\ pc' = next

ExternalKeepsGoing(at, op, nm, okMsgs, next) ==
    /\ pc = at
    /\ \E ok \in BOOLEAN :
        /\ calls' = Logged(op, ok, nm, <<>>)
        /\ IF ok THEN GoOn(okMsgs, next) ELSE GoOn(<<"error">>, next)
    /\ UNCHANGED <<flagVars, disk, dockerfile, conf, artifact, docWrites, unitIn, unitOut>>

\* A call of an external collaborator that either fails, and ends the
\* process, or succeeds
External(at, op, nm, okMsgs, next) ==
    /\ pc = at
    /\ \E ok \in BOOLEAN :
        /\ calls' = Logged(op, ok, nm, <<>>)
        /\ IF ok THEN GoOn(okMsgs, next) ELSE Exit1(<<"error">>)
    /\ UNCHANGED <<flagVars, disk, dockerfile, conf, artifact, docWrites, unitIn, unitOut>>

\* lines 169-172
CheckArgs ==
    /\ pc = "CheckArgs"
    /\ IF Len(args) < 1 THEN Exit1(<<"hint: run bsf oci <environment name>">>)
       ELSE GoOn(<<>>, "LoadConfig")
    /\ UNCHANGED <<flagVars, disk, dockerfile, conf, artifact, calls, docWrites, unitIn, unitOut>>

\* lines 174-178: hcl2nix.ReadHclFile("bsf.hcl") may fail to read or parse
LoadConfig ==
    /\ pc = "LoadConfig"
    /\ \E ok \in BOOLEAN :
        /\ calls' = Logged("ReadHclFile", ok, <<>>, <<>>)
        /\ IF ok
           THEN conf' = ReadConfig(disk) /\ GoOn(<<>>, "Resolve")
           ELSE conf' = conf /\ Exit1(<<"error">>)
    /\ UNCHANGED <<flagVars, disk, dockerfile, artifact, docWrites, unitIn, unitOut>>

\* lines 180-186
Resolve ==
    /\ pc = "Resolve"
    /\ \E host \in Hosts :
        LET r == ProcessPlatformAndConfig(conf, platform, args[1], host)
        IN  /\ calls' = Logged("ProcessPlatformAndConfig", r.err = NoErr, <<>>, <<>>)
            /\ IF r.err # NoErr
               THEN /\ Exit1(<<"error">>)
                    /\ UNCHANGED <<artifact, platform>>
               ELSE /\ artifact' = r.artifact
                    /\ platform' = r.plat
                    /\ GoOn(<<>>, "Mutate")
    /\ UNCHANGED <<args, tag, dfSwap, devDeps, loadDocker, loadPodman, push,
                   disk, dockerfile, conf, docWrites, unitIn, unitOut>>

\* line 188: the Tag/Name Mutator runs
tagOverrideIgnoringDfSwap == tag # <<>>

tagOverride == tag # <<>> /\ ~dfSwap

\* lines 188-201
Mutate ==
    /\ pc = "Mutate"
    /\ IF tagOverride
       THEN LET n == getNewName(artifact, tag)
                oldName == artifact.Name
                renamed == [artifact EXCEPT !.Name = n.name]
            IN  IF n.err # NoErr
                THEN /\ calls' = Logged("getNewName", FALSE, <<>>, <<>>)
                     /\ Exit1(<<"error">>)
                     /\ UNCHANGED <<artifact, conf, disk, docWrites>>
                ELSE \E w \in {"ok", "denied", "short"} :
                        LET m == ModifyConfig(oldName, renamed, conf, disk, w)
                        IN  /\ artifact' = renamed
                            /\ conf' = m.config
                            /\ disk' = m.doc
                            /\ docWrites' = docWrites + (IF m.wrote THEN 1 ELSE 0)
                            /\ calls' = Append(Logged("getNewName", TRUE, n.name, <<>>),
                                               [op |-> "ModifyConfig", ok |-> m.err = NoErr,
                                                name |-> n.name, aux |-> <<>>])
                            /\ IF m.err # NoErr THEN Exit1(<<"error">>)
                               ELSE GoOn(<<>>, "Patch")
       ELSE /\ GoOn(<<>>, "Patch")
            /\ UNCHANGED <<artifact, conf, disk, docWrites, calls>>
    /\ UNCHANGED <<flagVars, dockerfile, unitIn, unitOut>>

\* line 204: the patch branch has a tag to write
patchTagAssumed == TRUE

patchTagGiven == tag # <<>>

\* lines 203-214
Patch ==
    /\ pc = "Patch"
    /\ IF dfSwap
       THEN IF patchTagGiven
            THEN \E o \in {"ok", "open", "modify", "denied", "short"} :
                    LET r == modifyDockerfileWithTag(dockerfile, o)
                    IN  /\ dockerfile' = r.file
                        /\ calls' = Logged("modifyDockerfileWithTag", ~r.failed, <<>>, <<>>)
                        /\ IF r.failed THEN Exit1(<<"error">>)
                           ELSE Exit1(<<"dockerfile succesfully updated with tag">>)
            ELSE /\ Exit1(<<"hint: use --tag flag to define a tag">>)
                 /\ UNCHANGED <<dockerfile, calls>>
       ELSE /\ GoOn(<<>>, "GetBSFInitializers")
            /\ UNCHANGED <<dockerfile, calls>>
    /\ UNCHANGED <<flagVars, disk, conf, artifact, docWrites, unitIn, unitOut>>

\* lines 216-220
GetBSFInitializers ==
    External("GetBSFInitializers", "GetBSFInitializers", <<>>, <<>>, "Generate")

\* lines 221-230
Generate == External("Generate", "Generate", <<>>, <<>>, "GitAdd")

\* lines 232-236
GitAdd == External("GitAdd", "bgit.Add", <<>>, <<>>, "GitIgnore")

\* lines 238-242
GitIgnore == External("GitIgnore", "bgit.Ignore", <<>>, <<>>, "Build")

\* lines 244-251
Build ==
    External("Build", "nixcmd.Build", genOCIAttrName(artifact.Artifact, platform, artifact),
             <<"Generating artifacts...">>, "ReadLock")

\* lines 253-257
ReadLock == External("ReadLock", "os.ReadFile", <<>>, <<>>, "ParseLock")

\* lines 259-264
ParseLock == External("ParseLock", "json.Unmarshal", <<>>, <<>>, "Closure")

\* lines 266-271
Closure == External("Closure", "GetRuntimeClosureGraph", <<>>, <<>>, "GenerateArtifacts")

\* lines 271-280: appDetails.Name = artifact.Name is handed to GenerateArtifcats
GenerateArtifacts ==
    External("GenerateArtifacts", "GenerateArtifcats", artifact.Name,
             <<"Build completed successfully">>, "LoadDocker")

\* contextEP[ctx] of a Go map: whether ctx is a key, and its value
HasKey(eps, ctx) == \E i \in 1..Len(eps) : eps[i][1] = ctx
ValueOf(eps, ctx) == eps[CHOOSE i \in 1..Len(eps) : eps[i][1] = ctx][2]

\* The endpoint with the default socket whatever the contexts say
dockerEndpointAlwaysDefault(currentContext, contextEP) == DefaultSock

\* lines 294-305: the endpoint handed to oci.LoadDocker
dockerEndpoint(currentContext, contextEP) ==
    LET ctx == IF currentContext = <<>> THEN DefaultCtx ELSE currentContext
    IN  IF HasKey(contextEP, ctx) THEN ValueOf(contextEP, ctx) ELSE DefaultSock

\* lines 282-316
LoadDocker ==
    /\ pc = "LoadDocker"
    /\ IF loadDocker
       THEN \E c \in ContextResults, e \in EndpointResults, ok \in BOOLEAN :
                LET expectedInstall == ~c.failed /\ ~e.failed
                    ep == dockerEndpoint(c.ctx, e.eps)
                IN  /\ calls' = calls \o
                          <<[op |-> "GetCurrentContext", ok |-> ~c.failed, name |-> c.ctx, aux |-> <<>>],
                            [op |-> "ReadContextEndpoints", ok |-> ~e.failed, name |-> <<>>, aux |-> e.eps],
                            [op |-> "oci.LoadDocker", ok |-> ok, name |-> artifact.Name, aux |-> ep]>>
                    /\ IF ok
                       THEN GoOn(<<"Loading image to docker daemon...", "Image loaded to docker daemon">>,
                                 "LoadPodman")
                       ELSE Exit1(<<"Loading image to docker daemon...", "error">>
                                    \o (IF ~expectedInstall THEN <<"error: Is Docker installed?">> ELSE <<>>))
       ELSE /\ GoOn(<<>>, "LoadPodman")
            /\ calls' = calls
    /\ UNCHANGED <<flagVars, disk, dockerfile, conf, artifact, docWrites, unitIn, unitOut>>

LoadPodmanKeepsGoing ==
    /\ pc = "LoadPodman"
    /\ IF loadPodman
       THEN \E ok \in BOOLEAN :
                /\ calls' = Logged("oci.LoadPodman", ok, artifact.Name, <<>>)
                /\ IF ok
                   THEN GoOn(<<"Loading image to podman...", "Image loaded to podman">>, "Push")
                   ELSE GoOn(<<"Loading image to podman...", "error">>, "Push")
       ELSE /\ GoOn(<<>>, "Push")
            /\ calls' = calls
    /\ UNCHANGED <<flagVars, disk, dockerfile, conf, artifact, docWrites, unitIn, unitOut>>

LoadPodmanUngated ==
    /\ pc = "LoadPodman"
    /\ \E ok \in BOOLEAN :
        /\ calls' = Logged("oci.LoadPodman", ok, artifact.Name, <<>>)
        /\ IF ok
           THEN GoOn(<<"Loading image to podman...", "Image loaded to podman">>, "Push")
           ELSE Exit1(<<"Loading image to podman...", "error">>)
    /\ UNCHANGED <<flagVars, disk, dockerfile, conf, artifact, docWrites, unitIn, unitOut>>

\* lines 318-326
LoadPodman ==
    /\ pc = "LoadPodman"
    /\ IF loadPodman
       THEN \E ok \in BOOLEAN :
                /\ calls' = Logged("oci.LoadPodman", ok, artifact.Name, <<>>)
                /\ IF ok
                   THEN GoOn(<<"Loading image to podman...", "Image loaded to podman">>, "Push")
                   ELSE Exit1(<<"Loading image to podman...", "error">>)
       ELSE /\ GoOn(<<>>, "Push")
            /\ calls' = calls
    /\ UNCHANGED <<flagVars, disk, dockerfile, conf, artifact, docWrites, unitIn, unitOut>>

\* lines 328-337: after the push branch Run returns and the process exits 0
Push ==
    /\ pc = "Push"
    /\ IF push
       THEN \E ok \in BOOLEAN :
                /\ calls' = Logged("oci.Push", ok, artifact.Name, <<>>)
                /\ IF ok
                   THEN /\ printed' = printed \o <<"Pushing image to registry...", "Image pushed to registry">>
                        /\ exitCode' = 0
                        /\ pc' = "exited"
                   ELSE Exit1(<<"Pushing image to registry...", "error">>)
       ELSE /\ printed' = printed
            /\ exitCode' = 0
            /\ pc' = "exited"
            /\ calls' = calls
    /\ UNCHANGED <<flagVars, disk, dockerfile, conf, artifact, docWrites, unitIn, unitOut>>

Next ==
    \/ CheckArgs
    \/ LoadConfig
    \/ Resolve
    \/ Mutate
    \/ Patch
    \/ GetBSFInitializers
    \/ Generate
    \/ GitAdd
    \/ GitIgnore
    \/ Build
    \/ ReadLock
    \/ ParseLock
    \/ Closure
    \/ GenerateArtifacts
    \/ LoadDocker
    \/ LoadPodman
    \/ Push

Spec == Init /\ [][Next]_vars

---------------------------------------------------------------------------
(* The functions of the pipeline, called on their own *)

\* Run's variables while a function is called on its own
NoRun ==
    /\ args = <<>>
    /\ tag = <<>>
    /\ dfSwap = FALSE
    /\ loadDocker = FALSE
    /\ loadPodman = FALSE
    /\ push = FALSE
    /\ dockerfile = "original"
    /\ artifact = EmptyArtifact
    /\ pc = "call"
    /\ calls = <<>>
    /\ printed = <<>>
    /\ exitCode = -1
    /\ docWrites = 0
    /\ unitOut = NoUnit

UnitArtifacts ==
    {[Artifact |-> l, Name |-> n, ImportConfigs |-> ic] :
        l \in {Pkgs, Svc}, n \in {App, AppV1}, ic \in {<<Base>>, <<Gone>>}}

UnitConfigs ==
    {[OCIArtifact |-> s, ConfigFiles |-> <<Base>>] :
        s \in SeqsUpTo(UnitArtifacts, MaxArtifacts)}

Pads == SeqsUpTo({"4"}, MaxPad)

UnitPlatforms ==
    {pre \o core \o suf :
        pre \in Pads, suf \in Pads,
        core \in {<<>>, LinuxAmd64, LinuxArm64, DarwinArm64, LinuxAmd6, LinuxArm}}
    \cup {LinuxAmd64V8, LinuxAmd64 \o <<",">> \o LinuxArm64}

\* The host matters only when the platform string is empty
UnitPlatformsOnHosts ==
    {[plat |-> p, host |-> [os |-> Linux, arch |-> Amd64]] : p \in UnitPlatforms \ {<<>>}}
    \cup {[plat |-> <<>>, host |-> h] : h \in Hosts}

UnitLabels == {Pkgs, Svc, Web}

UnitNames == SeqsUpTo({"a", ":"}, MaxNameLen) \cup {App, AppV1}

UnitTags == SeqsUpTo({"v", ":"}, MaxNameLen - 1) \cup {V2}

(* ProcessPlatformAndConfig *)
InitResolve ==
    /\ NoRun
    /\ \E c \in UnitConfigs, ph \in UnitPlatformsOnHosts, l \in UnitLabels :
        /\ unitIn = [fn |-> "ProcessPlatformAndConfig", conf |-> c, plat |-> ph.plat,
                     host |-> ph.host, envName |-> l]
        /\ conf = c
        /\ disk = WriteConfig(c)
        /\ platform = ph.plat
    /\ devDeps = FALSE

CallProcessPlatformAndConfig ==
    /\ pc = "call"
    /\ unitIn.fn = "ProcessPlatformAndConfig"
    /\ unitOut' = ProcessPlatformAndConfig(unitIn.conf, unitIn.plat, unitIn.envName, unitIn.host)
    /\ pc' = "returned"
    /\ UNCHANGED <<flagVars, disk, dockerfile, conf, artifact, calls, printed, exitCode,
                   docWrites, unitIn>>

SpecResolve == InitResolve /\ [][CallProcessPlatformAndConfig]_vars

(* getNewName *)
InitName ==
    /\ NoRun
    /\ \E n \in UnitNames, t \in UnitTags :
        unitIn = [fn |-> "getNewName",
                  artifact |-> [Artifact |-> Svc, Name |-> n, ImportConfigs |-> <<>>],
                  tag |-> t]
    /\ conf = NilConfig
    /\ disk = <<>>
    /\ platform = <<>>
    /\ devDeps = FALSE

CallGetNewName ==
    /\ pc = "call"
    /\ unitIn.fn = "getNewName"
    /\ unitOut' = getNewName(unitIn.artifact, unitIn.tag)
    /\ pc' = "returned"
    /\ UNCHANGED <<flagVars, disk, dockerfile, conf, artifact, calls, printed, exitCode,
                   docWrites, unitIn>>

SpecName == InitName /\ [][CallGetNewName]_vars

(* hcl2nix.ModifyConfig *)
InitModify ==
    /\ NoRun
    /\ \E c \in UnitConfigs, n \in {App, AppV1, AppV2}, a \in UnitArtifacts :
        /\ unitIn = [fn |-> "ModifyConfig", oldName |-> n,
                     artifact |-> [a EXCEPT !.Name = AppV2], conf |-> c]
        /\ conf = c
        /\ disk = WriteConfig(c)
    /\ platform = <<>>
    /\ devDeps = FALSE

CallModifyConfig ==
    /\ pc = "call"
    /\ unitIn.fn = "ModifyConfig"
    /\ \E w \in {"ok", "denied", "short"} :
        LET m == ModifyConfig(unitIn.oldName, unitIn.artifact, conf, disk, w)
        IN  /\ conf' = m.config
            /\ disk' = m.doc
            /\ docWrites' = docWrites + (IF m.wrote THEN 1 ELSE 0)
            /\ unitOut' = m
    /\ pc' = "returned"
    /\ UNCHANGED <<flagVars, dockerfile, artifact, calls, printed, exitCode, unitIn>>

SpecModify == InitModify /\ [][CallModifyConfig]_vars

(* The tag override of OCICmd.Run, run again on the document it wrote *)
RerunArtifacts ==
    {[Artifact |-> l, Name |-> n, ImportConfigs |-> ic] :
        l \in {Pkgs, Svc}, n \in {App, AppV1, AppV2}, ic \in {<<Base>>, <<Gone>>}}

RerunConfigs ==
    {[OCIArtifact |-> s, ConfigFiles |-> <<Base>>] :
        s \in SeqsUpTo(RerunArtifacts, MaxDocArtifacts)}

InitRerun ==
    /\ NoRun
    /\ \E c \in RerunConfigs, l \in {Pkgs, Svc} :
        /\ unitIn = [fn |-> "Run", envName |-> l, tag |-> V2]
        /\ disk = WriteConfig(c)
    /\ conf = NilConfig
    /\ platform = LinuxAmd64
    /\ devDeps = FALSE

\* lines 174-201 of one run with a tag and without --df-swap: bsf.hcl is read,
\* the artifact selected, renamed and written back. pc counts the runs that
\* got through: "call", "once", "twice"; unitOut keeps the Config the first
\* run left.
RerunTagOverride ==
    /\ pc \in {"call", "once"}
    /\ unitIn.fn = "Run"
    /\ LET loaded == ReadConfig(disk)
           r == ProcessPlatformAndConfig(loaded, platform, unitIn.envName,
                                         [os |-> Linux, arch |-> Amd64])
           n == getNewName(r.artifact, unitIn.tag)
           renamed == [r.artifact EXCEPT !.Name = n.name]
       IN  IF r.err # NoErr
           THEN /\ pc' = "failed"
                /\ conf' = loaded
                /\ UNCHANGED <<disk, docWrites, artifact, unitOut>>
           ELSE \E w \in {"ok", "denied", "short"} :
                   LET m == ModifyConfig(r.artifact.Name, renamed, loaded, disk, w)
                   IN  /\ artifact' = renamed
                       /\ conf' = m.config
                       /\ disk' = m.doc
                       /\ docWrites' = docWrites + (IF m.wrote THEN 1 ELSE 0)
                       /\ pc' = IF m.err # NoErr THEN "failed"
                                ELSE IF pc = "call" THEN "once" ELSE "twice"
                       /\ unitOut' = IF pc = "call" THEN [first |-> m.config] ELSE unitOut
    /\ UNCHANGED <<flagVars, dockerfile, calls, printed, exitCode, unitIn>>

SpecRerun == InitRerun /\ [][RerunTagOverride]_vars

(* genOCIAttrName *)
InitAttr ==
    /\ NoRun
    /\ \E l \in UnitLabels \cup {<<>>}, p \in UnitPlatforms, a \in {EmptyArtifact} :
        unitIn = [fn |-> "genOCIAttrName", env |-> l, platform |-> p, artifact |-> a]
    /\ conf = NilConfig
    /\ disk = <<>>
    /\ platform = <<>>
    /\ devDeps \in BOOLEAN

CallGenOCIAttrName ==
    /\ pc = "call"
    /\ unitIn.fn = "genOCIAttrName"
    /\ unitOut' = [attr |-> genOCIAttrName(unitIn.env, unitIn.platform, unitIn.artifact)]
    /\ pc' = "returned"
    /\ UNCHANGED <<flagVars, disk, dockerfile, conf, artifact, calls, printed, exitCode,
                   docWrites, unitIn>>

SpecAttr == InitAttr /\ [][CallGenOCIAttrName]_vars

---------------------------------------------------------------------------
(* Properties of OCICmd.Run, under Spec *)

\* The order in which Run can make its calls
CallOrder ==
    <<"ReadHclFile", "ProcessPlatformAndConfig", "getNewName", "ModifyConfig",
      "modifyDockerfileWithTag", "GetBSFInitializers", "Generate", "bgit.Add",
      "bgit.Ignore", "nixcmd.Build", "os.ReadFile", "json.Unmarshal",
      "GetRuntimeClosureGraph", "GenerateArtifcats", "GetCurrentContext",
      "ReadContextEndpoints", "oci.LoadDocker", "oci.LoadPodman", "oci.Push">>

PosOf ==
    [op \in {CallOrder[i] : i \in 1..Len(CallOrder)} |->
        CHOOSE i \in 1..Len(CallOrder) : CallOrder[i] = op]

Pos(op) == PosOf[op]

\* The calls of the stages every run goes through, up to GenerateArtifacts
Mandatory ==
    {"ReadHclFile", "ProcessPlatformAndConfig", "GetBSFInitializers", "Generate",
     "bgit.Add", "bgit.Ignore", "nixcmd.Build", "os.ReadFile", "json.Unmarshal",
     "GetRuntimeClosureGraph", "GenerateArtifcats"}

\* The context discovery of the Docker branch, whose failure is not fatal
Discovery == {"GetCurrentContext", "ReadContextEndpoints"}

Distribution == {"oci.LoadDocker", "oci.LoadPodman", "oci.Push"}

Called(op) == \E i \in 1..Len(calls) : calls[i].op = op
Succeeded(op) == \E i \in 1..Len(calls) : calls[i].op = op /\ calls[i].ok
SomeStageFailed == \E i \in 1..Len(calls) : ~calls[i].ok /\ calls[i].op \notin Discovery

\* C1: the calls of a run are made in the fixed stage order; a call is made
\* only when every stage before it was called and succeeded; a failed stage is
\* the last call of the run and the process has exited with status 1; so no
\* distribution call is made unless all stages up to GenerateArtifacts
\* succeeded.
C1_StageOrderFailFast ==
    /\ \A i \in 1..(Len(calls) - 1) : Pos(calls[i].op) < Pos(calls[i + 1].op)
    /\ \A i \in 1..Len(calls) :
        (~calls[i].ok /\ calls[i].op \notin Discovery) =>
            /\ i = Len(calls)
            /\ pc = "exited"
            /\ exitCode = 1
    /\ \A j \in 1..Len(calls) : \A m \in Mandatory :
        Pos(m) < Pos(calls[j].op) =>
            \E i \in 1..(j - 1) : calls[i].op = m /\ calls[i].ok
    /\ \A d \in Distribution : Called(d) => \A m \in Mandatory : Succeeded(m)

\* A run with all three distribution branches requested that ended at a failed
\* Builder call
C1_Witness ==
    /\ pc = "exited"
    /\ loadDocker /\ loadPodman /\ push
    /\ Len(calls) > 0
    /\ calls[Len(calls)].op = "nixcmd.Build"
    /\ ~calls[Len(calls)].ok
    /\ \A d \in Distribution : ~Called(d)

\* C2: in a run with --df-swap the Tag/Name Mutator does not run (no call of
\* getNewName or ModifyConfig, no write of bsf.hcl, the document and the
\* selected artifact are as loaded), and Run never gets past the patch branch;
\* no run writes both bsf.hcl and the Dockerfile.
C2_PatchModeExclusiveTerminal ==
    /\ dfSwap =>
        /\ ~Called("getNewName") /\ ~Called("ModifyConfig")
        /\ docWrites = 0
        /\ Succeeded("ReadHclFile") => conf = ReadConfig(disk)
        /\ Succeeded("ProcessPlatformAndConfig") =>
            \E i \in 1..Len(conf.OCIArtifact) : conf.OCIArtifact[i] = artifact
        /\ pc \in {"CheckArgs", "LoadConfig", "Resolve", "Mutate", "Patch", "exited"}
        /\ \A i \in 1..Len(calls) : Pos(calls[i].op) <= Pos("modifyDockerfileWithTag")
    /\ ~(docWrites > 0 /\ dockerfile # "original")

\* A run with --df-swap and a tag that patched the Dockerfile and exited
C2_Witness ==
    /\ pc = "exited"
    /\ dfSwap
    /\ tag = V2
    /\ dockerfile = "patched"
    /\ Succeeded("modifyDockerfileWithTag")

\* Every stage of the run succeeded, and so did every requested branch
FullSuccess ==
    /\ Len(args) >= 1
    /\ \A m \in Mandatory : Succeeded(m)
    /\ ~SomeStageFailed
    /\ loadDocker => Succeeded("oci.LoadDocker")
    /\ loadPodman => Succeeded("oci.LoadPodman")
    /\ push => Succeeded("oci.Push")

\* C3: a terminated run has exit status 0 if and only if --df-swap was not set
\* and every stage and every requested distribution branch succeeded; every
\* other terminated run has status 1, and a running process has no status.
C3_ExitCode ==
    /\ pc = "exited" => exitCode \in {0, 1}
    /\ pc = "exited" => (exitCode = 0 <=> (~dfSwap /\ FullSuccess))
    /\ pc # "exited" => exitCode = -1

\* A fully successful run with Docker load and push requested
C3_Witness ==
    /\ pc = "exited"
    /\ exitCode = 0
    /\ loadDocker /\ push
    /\ Succeeded("oci.LoadDocker") /\ Succeeded("oci.Push")

\* A run in patch mode whose patch succeeded ends with status 1
C3_WitnessPatch ==
    /\ pc = "exited"
    /\ dfSwap
    /\ dockerfile = "patched"
    /\ exitCode = 1

---------------------------------------------------------------------------
(* Properties of ProcessPlatformAndConfig, under SpecResolve *)

InArts == unitIn.conf.OCIArtifact
Invalid(i) == ~Validate(InArts[i], unitIn.conf).isNil
Matches(i) == InArts[i].Artifact = unitIn.envName

\* The first artifact in document order whose label is the requested one
\* (0: none), and the first one that fails its validation (0: none)
FirstMatch ==
    IF \E i \in 1..Len(InArts) : Matches(i)
    THEN CHOOSE i \in 1..Len(InArts) : Matches(i) /\ \A j \in 1..(i - 1) : ~Matches(j)
    ELSE 0

FirstInvalid ==
    IF \E i \in 1..Len(InArts) : Invalid(i)
    THEN CHOOSE i \in 1..Len(InArts) : Invalid(i) /\ \A j \in 1..(i - 1) : ~Invalid(j)
    ELSE 0

\* The platform string examined: the given one, or the host's when it is empty
ExaminedPlatform ==
    IF unitIn.plat = <<>> THEN unitIn.host.os \o <<"/">> \o unitIn.host.arch ELSE unitIn.plat

HasAllowlisted(p) ==
    \/ \E i \in 1..(Len(p) - 10) :
            SubSeq(p, i, i + 10) = <<"l","i","n","u","x","/","a","m","d","6","4">>
    \/ \E i \in 1..(Len(p) - 10) :
            SubSeq(p, i, i + 10) = <<"l","i","n","u","x","/","a","r","m","6","4">>

Returned == pc = "returned"

\* C4: on a supported platform, when an artifact before the first one with the
\* requested label fails its validation, the call fails with the error of the
\* first such artifact (its Name and its validation message) and returns no
\* artifact and no platform.
C4_EagerValidationOfPredecessors ==
    (Returned /\ HasAllowlisted(ExaminedPlatform) /\ FirstMatch > 0
        /\ FirstInvalid > 0 /\ FirstInvalid < FirstMatch) =>
            /\ unitOut.err = [kind |-> "invalid", name |-> InArts[FirstInvalid].Name,
                              detail |-> Validate(InArts[FirstInvalid], unitIn.conf).str]
            /\ unitOut.artifact = EmptyArtifact
            /\ unitOut.plat = <<>>

\* An invalid artifact, then a valid one with the requested label and another
\* Name: the call failed naming the first
C4_Witness ==
    /\ Returned /\ HasAllowlisted(ExaminedPlatform)
    /\ Len(InArts) >= 2
    /\ Invalid(1) /\ ~Matches(1)
    /\ ~Invalid(2) /\ Matches(2)
    /\ InArts[1].Name # InArts[2].Name
    /\ unitOut.err.kind = "invalid"
    /\ unitOut.err.name = InArts[1].Name

\* C5 as stated: an artifact failing its validation anywhere in the list makes
\* the selection of a valid artifact with the requested label fail.
C5_InvalidAnywhereBlocks ==
    (Returned /\ HasAllowlisted(ExaminedPlatform) /\ FirstMatch > 0
        /\ ~Invalid(FirstMatch) /\ FirstInvalid > 0) =>
            unitOut.err # NoErr

\* C5 as amended: on a supported platform, when some artifact has the
\* requested label, the selection fails if and only if an artifact at or
\* before the first such artifact fails its validation; otherwise that
\* artifact is returned, whatever the artifacts after it are.
C5_InvalidUpToMatchBlocks ==
    (Returned /\ HasAllowlisted(ExaminedPlatform) /\ FirstMatch > 0) =>
        /\ unitOut.err # NoErr <=> (FirstInvalid > 0 /\ FirstInvalid <= FirstMatch)
        /\ unitOut.err = NoErr =>
            /\ unitOut.artifact = InArts[FirstMatch]
            /\ unitOut.plat = ExaminedPlatform

\* The requested artifact comes first and is valid, an invalid one follows:
\* the selection succeeded
C5_Witness ==
    /\ Returned /\ HasAllowlisted(ExaminedPlatform)
    /\ Len(InArts) >= 2
    /\ Matches(1) /\ ~Invalid(1)
    /\ Invalid(2)
    /\ unitOut.err = NoErr
    /\ unitOut.artifact = InArts[1]

\* C6: on a supported platform, when every artifact validates and none has the
\* requested label, the call fails and the error lists the Artifact labels of
\* all artifacts, in document order, duplicates kept, joined by ", ".
C6_NotFoundListsAllLabels ==
    (Returned /\ HasAllowlisted(ExaminedPlatform) /\ FirstMatch = 0 /\ FirstInvalid = 0) =>
        /\ unitOut.err.kind = "notfound"
        /\ unitOut.err.detail = Join([i \in 1..Len(InArts) |-> InArts[i].Artifact], CommaSpace)
        /\ Len(InArts) > 0 =>
            Split(unitOut.err.detail, CommaSpace) = [i \in 1..Len(InArts) |-> InArts[i].Artifact]
        /\ unitOut.artifact = EmptyArtifact
        /\ unitOut.plat = <<>>

\* Three valid artifacts, two of them with the same label, none requested
C6_Witness ==
    /\ Returned /\ HasAllowlisted(ExaminedPlatform)
    /\ FirstMatch = 0 /\ FirstInvalid = 0
    /\ Len(InArts) = 3
    /\ InArts[1].Artifact = InArts[3].Artifact
    /\ InArts[1].Artifact # InArts[2].Artifact
    /\ unitOut.err.kind = "notfound"

\* C7: a non-empty platform string passes the platform check if and only if
\* linux/amd64 or linux/arm64 is a substring of it; when neither is, the call
\* fails without validating any artifact, returns no artifact and no platform,
\* and the error lists "linux/amd64, linux/arm64".
C7_PlatformAllowlistBySubstring ==
    (Returned /\ unitIn.plat # <<>>) =>
        /\ unitOut.err.kind # "platform" <=> HasAllowlisted(unitIn.plat)
        /\ ~HasAllowlisted(unitIn.plat) =>
            /\ unitOut.artifact = EmptyArtifact
            /\ unitOut.plat = <<>>
            /\ unitOut.err.kind = "platform"
            /\ unitOut.err.detail =
                <<"l","i","n","u","x","/","a","m","d","6","4",",", " ",
                  "l","i","n","u","x","/","a","r","m","6","4">>

\* linux/amd6 is rejected although the first artifact of the config is invalid
C7_Witness ==
    /\ Returned
    /\ unitIn.plat = LinuxAmd6
    /\ Len(InArts) >= 1 /\ Invalid(1)
    /\ unitOut.err.kind = "platform"

\* linux/amd64/v8 is accepted
C7_WitnessAccepted ==
    /\ Returned
    /\ unitIn.plat = LinuxAmd64V8
    /\ unitOut.err = NoErr

---------------------------------------------------------------------------
(* Properties of getNewName, under SpecName *)

\* The part of a name before its first ':', the whole name when it has none
BeforeFirstColon(n) ==
    LET colons == {i \in 1..Len(n) : n[i] = ":"}
    IN  IF colons = {} THEN n
        ELSE SubSeq(n, 1, (CHOOSE i \in colons : \A j \in colons : i <= j) - 1)

\* C8: the new name is the part of the current name before its first ':',
\* then ':', then the tag; "app" with "v2" and "app:v1" with "v2" both give
\* "app:v2"; the error is always nil.
C8_NewNameReplacesTag ==
    Returned =>
        /\ unitOut.name = BeforeFirstColon(unitIn.artifact.Name) \o <<":">> \o unitIn.tag
        /\ unitOut.err = NoErr
        /\ (unitIn.artifact.Name = <<"a","p","p">> /\ unitIn.tag = <<"v","2">>) =>
            unitOut.name = <<"a","p","p",":","v","2">>
        /\ (unitIn.artifact.Name = <<"a","p","p",":","v","1">> /\ unitIn.tag = <<"v","2">>) =>
            unitOut.name = <<"a","p","p",":","v","2">>

\* "app:v1" with tag "v2" gave "app:v2"
C8_Witness ==
    /\ Returned
    /\ unitIn.artifact.Name = AppV1
    /\ unitIn.tag = V2
    /\ unitOut.name = AppV2

---------------------------------------------------------------------------
(* Properties of hcl2nix.ModifyConfig, under SpecModify *)

NameInConfig == \E i \in 1..Len(InArts) : InArts[i].Name = unitIn.oldName

\* C9: when no artifact has the Name oldName, ModifyConfig returns nil, does
\* not call os.WriteFile on bsf.hcl and leaves the Config and the document as
\* they were; os.WriteFile is called if and only if an artifact was replaced,
\* and when it succeeds the document is the serialized new Config.
C9_NoMatchNoWrite ==
    Returned =>
        /\ ~NameInConfig =>
            /\ unitOut.err = NoErr
            /\ docWrites = 0
            /\ conf = unitIn.conf
            /\ disk = WriteConfig(unitIn.conf)
        /\ docWrites = 1 <=> NameInConfig
        /\ docWrites \in {0, 1}
        /\ (NameInConfig /\ unitOut.err = NoErr) =>
            /\ conf # unitIn.conf
            /\ ReadConfig(disk) = conf

\* A config of three artifacts, none named oldName: nothing was written
C9_Witness ==
    /\ Returned
    /\ Len(InArts) = 3
    /\ ~NameInConfig
    /\ docWrites = 0
    /\ unitOut.err = NoErr

---------------------------------------------------------------------------
(* Properties of genOCIAttrName, under SpecAttr *)

\* The segments of an attribute path between its '.' separators
Segments(attr) == Split(attr, <<".">>)

EndsWith(s, suffix) ==
    /\ Len(s) >= Len(suffix)
    /\ SubSeq(s, Len(s) - Len(suffix) + 1, Len(s)) = suffix

\* C10: the attribute is bsf/.#ociImages.<arch>.ociImage_<env>_<suffix>; the
\* architecture segment is x86_64-linux exactly for linux/amd64, aarch64-linux
\* exactly for linux/arm64 and unknown for every other platform string; the
\* suffix is runtime-as-dir or dev-as-dir for the label pkgs and app-as-dir or
\* app_with_dev-as-dir for any other label, by the dev flag.
C10_AttrName ==
    Returned =>
        LET attr == unitOut.attr
            arch == Segments(attr)[3]
            tail == <<"o","c","i","I","m","a","g","e","_">> \o unitIn.env \o <<"_">>
        IN  /\ Len(Segments(attr)) = 4
            /\ Segments(attr)[1] = <<"b","s","f","/">>
            /\ Segments(attr)[2] = <<"#","o","c","i","I","m","a","g","e","s">>
            /\ arch = <<"x","8","6","_","6","4","-","l","i","n","u","x">>
                <=> unitIn.platform = <<"l","i","n","u","x","/","a","m","d","6","4">>
            /\ arch = <<"a","a","r","c","h","6","4","-","l","i","n","u","x">>
                <=> unitIn.platform = <<"l","i","n","u","x","/","a","r","m","6","4">>
            /\ arch = <<"u","n","k","n","o","w","n">>
                <=> unitIn.platform \notin {LinuxAmd64, LinuxArm64}
            /\ Segments(attr)[4] = tail \o
                (IF unitIn.env = <<"p","k","g","s">>
                 THEN IF devDeps THEN <<"d","e","v","-","a","s","-","d","i","r">>
                      ELSE <<"r","u","n","t","i","m","e","-","a","s","-","d","i","r">>
                 ELSE IF devDeps
                      THEN <<"a","p","p","_","w","i","t","h","_","d","e","v","-","a","s","-","d","i","r">>
                      ELSE <<"a","p","p","-","a","s","-","d","i","r">>)

\* linux/amd64/v8 for pkgs with dev dependencies: unknown and dev-as-dir
C10_Witness ==
    /\ Returned
    /\ unitIn.platform = LinuxAmd64V8
    /\ unitIn.env = Pkgs
    /\ devDeps
    /\ Segments(unitOut.attr)[3] = UnknownArch
    /\ EndsWith(unitOut.attr, <<"_">> \o DevAsDir)

---------------------------------------------------------------------------
(* Properties of OCICmd.Run, under Spec: patch mode, distribution, names *)

Printed(msg) == \E i \in 1..Len(printed) : printed[i] = msg

\* C11: in a run with --df-swap and an empty tag, once the document was loaded
\* and the artifact resolved, no file is modified (the Dockerfile is as it was,
\* bsf.hcl is not written and still is the loaded document), the usage hint
\* is printed, and the process terminates with status 1 without any call after
\* ProcessPlatformAndConfig, so without any build step.
C11_PatchModeWithoutTag ==
    (dfSwap /\ tag = <<>> /\ Succeeded("ProcessPlatformAndConfig")) =>
        /\ dockerfile = "original"
        /\ docWrites = 0
        /\ disk = WriteConfig(conf)
        /\ calls[Len(calls)].op = "ProcessPlatformAndConfig"
        /\ pc \in {"Mutate", "Patch", "exited"}
        /\ pc = "exited" =>
            /\ exitCode = 1
            /\ printed = <<"hint: use --tag flag to define a tag">>

\* A run with --df-swap and no tag that resolved its artifact and exited
C11_Witness ==
    /\ pc = "exited"
    /\ dfSwap
    /\ tag = <<>>
    /\ Succeeded("ProcessPlatformAndConfig")
    /\ Printed("hint: use --tag flag to define a tag")

\* The switch of a distribution branch
Switch(op) ==
    CASE op = "oci.LoadDocker" -> loadDocker
      [] op = "oci.LoadPodman" -> loadPodman
      [] op = "oci.Push" -> push

\* C12: a distribution branch is attempted only if its switch is set and
\* GenerateArtifcats succeeded; the branches attempted in a run come one after
\* the other in the order Docker load, Podman load, push, each at most once; a
\* failed branch ends the process with status 1, and the branches that
\* succeeded before it stay succeeded: nothing is called after the failure.
C12_DistributionGatedOrdered ==
    /\ \A i \in 1..Len(calls) :
        calls[i].op \in Distribution =>
            /\ Switch(calls[i].op)
            /\ \E g \in 1..(i - 1) : calls[g].op = "GenerateArtifcats" /\ calls[g].ok
            /\ \A j \in (i + 1)..Len(calls) :
                /\ calls[j].op \in Distribution \cup Discovery
                /\ Pos(calls[i].op) < Pos(calls[j].op)
                /\ calls[i].ok
            /\ ~calls[i].ok => (i = Len(calls) /\ pc = "exited" /\ exitCode = 1)

\* A run that loaded the image into Docker and then failed to load it into
\* Podman, with the push requested too
C12_Witness ==
    /\ pc = "exited"
    /\ exitCode = 1
    /\ loadDocker /\ loadPodman /\ push
    /\ Succeeded("oci.LoadDocker")
    /\ Called("oci.LoadPodman")
    /\ ~Succeeded("oci.LoadPodman")

\* The artifacts were generated and the process has terminated
DistributionOver == pc = "exited" /\ Succeeded("GenerateArtifcats")

\* Some distribution branch was attempted and failed
BranchFailed(op) == Called(op) /\ ~Succeeded(op)

\* C13 as stated: once the artifacts are generated, every requested branch is
\* attempted whatever the outcome of the others: a failed Docker load does not
\* prevent the Podman load or the push, a failed Podman load does not prevent
\* the push.
C13_BranchesIndependent ==
    DistributionOver =>
        \A d \in Distribution : Switch(d) => Called(d)

\* C13 amended: once the artifacts are generated, a requested branch is
\* attempted if and only if no branch before it failed: the first failed
\* branch ends the process, and the requested branches after it are not
\* attempted.
C13_BranchesUntilFirstFailure ==
    DistributionOver =>
        \A d \in Distribution :
            Switch(d) =>
                (Called(d) <=> \A e \in Distribution : Pos(e) < Pos(d) => ~BranchFailed(e))

\* A run whose Docker load failed with the Podman load and the push requested
C13_Witness ==
    /\ DistributionOver
    /\ loadDocker /\ loadPodman /\ push
    /\ BranchFailed("oci.LoadDocker")
    /\ ~Called("oci.LoadPodman")
    /\ ~Called("oci.Push")

\* C14: the Builder is never invoked with the unknown architecture sentinel:
\* whatever platform string ProcessPlatformAndConfig accepted, the attribute
\* handed to nixcmd.Build has the architecture segment x86_64-linux or
\* aarch64-linux.
C14_BuildNeverUnknown ==
    \A i \in 1..Len(calls) :
        calls[i].op = "nixcmd.Build" =>
            Segments(calls[i].name)[3] \in {X86_64Linux, Aarch64Linux}

\* The position in the loaded Config of the artifact Run selected: the first
\* one with the requested label
Selected ==
    CHOOSE k \in 1..Len(conf.OCIArtifact) :
        /\ conf.OCIArtifact[k].Artifact = args[1]
        /\ \A j \in 1..(k - 1) : conf.OCIArtifact[j].Artifact # args[1]

\* The Tag/Name Mutator ran and ModifyConfig returned nil
Mutated == pc = "Mutate" /\ tagOverride /\ pc' = "Patch"

\* C15: a tag override changes exactly the selected artifact, in place: the
\* artifact list keeps its length and its sequence of labels, the selected
\* entry differs only in its Name, which is the new name, and every other
\* entry is as it was, also when two artifacts share a Name.
C15_TagOverrideInPlace ==
    [][Mutated =>
        /\ Len(conf'.OCIArtifact) = Len(conf.OCIArtifact)
        /\ \A i \in 1..Len(conf.OCIArtifact) :
            /\ conf'.OCIArtifact[i].Artifact = conf.OCIArtifact[i].Artifact
            /\ i # Selected => conf'.OCIArtifact[i] = conf.OCIArtifact[i]
        /\ conf'.OCIArtifact[Selected] =
            [conf.OCIArtifact[Selected] EXCEPT !.Name = getNewName(artifact, tag).name]
        /\ disk' = WriteConfig(conf')]_vars

\* The position of the Docker load in the calls of the run (0: not attempted)
DockerAt ==
    IF Called("oci.LoadDocker")
    THEN CHOOSE i \in 1..Len(calls) : calls[i].op = "oci.LoadDocker"
    ELSE 0

\* The endpoint the discovery results of the run designate: the one the
\* endpoint map registers for the current context, "default" when the context
\* is empty, and the default socket when the map registers none
RegisteredEndpoint(found, eps) ==
    LET ctx == IF found = <<>> THEN DefaultCtx ELSE found
        regs == {j \in 1..Len(eps) : eps[j][1] = ctx}
    IN  IF regs = {} THEN DefaultSock
        ELSE eps[CHOOSE j \in regs : TRUE][2]

\* C17: when the Docker load is requested it is attempted whatever the context
\* discovery returned, right after the two discovery calls; its endpoint is
\* the one registered for the current context ("default" when none was
\* found) and unix:///var/run/docker.sock when none is registered; the hint
\* "Is Docker installed?" is printed exactly when the load failed and a
\* discovery call had failed.
C17_DockerEndpointFallback ==
    /\ (loadDocker /\ Succeeded("GenerateArtifcats") /\ pc # "LoadDocker") =>
        Called("oci.LoadDocker")
    /\ DockerAt # 0 =>
        /\ DockerAt >= 3
        /\ calls[DockerAt - 2].op = "GetCurrentContext"
        /\ calls[DockerAt - 1].op = "ReadContextEndpoints"
        /\ calls[DockerAt].aux =
            RegisteredEndpoint(calls[DockerAt - 2].name, calls[DockerAt - 1].aux)
        /\ Printed("error: Is Docker installed?") <=>
            /\ ~calls[DockerAt].ok
            /\ ~calls[DockerAt - 2].ok \/ ~calls[DockerAt - 1].ok
    /\ DockerAt = 0 => ~Printed("error: Is Docker installed?")

\* A run whose context discovery failed twice: the load went to the default
\* socket, failed, and the hint was printed
C17_Witness ==
    /\ pc = "exited"
    /\ DockerAt # 0
    /\ ~calls[DockerAt - 2].ok
    /\ ~calls[DockerAt - 1].ok
    /\ calls[DockerAt].aux = DefaultSock
    /\ ~calls[DockerAt].ok
    /\ Printed("error: Is Docker installed?")

\* The stages of Run after the mutate-or-patch stage
AfterMutateOrPatch ==
    {"GetBSFInitializers", "Generate", "GitAdd", "GitIgnore", "Build", "ReadLock",
     "ParseLock", "Closure", "GenerateArtifacts", "LoadDocker", "LoadPodman", "Push"}

\* Some oci block of the document has the given name
DocumentNames(n) == \E i \in 1..Len(disk) : IsOci(disk[i]) /\ disk[i].name = n

\* C18: in a run whose tag override found its artifact, bsf.hcl is rewritten
\* in full with the new name before the workspace is prepared: from then on,
\* until and at termination, whatever later stage succeeds or fails, the
\* document is the serialized Config, names the new name, and has been written
\* exactly once, so no stage after the mutation writes it.
C18_WriteThroughNoRollback ==
    (tagOverride /\ Succeeded("ModifyConfig")
        /\ (pc \in AfterMutateOrPatch \/ pc = "exited")) =>
        /\ docWrites = 1
        /\ disk = WriteConfig(conf)
        /\ DocumentNames(BeforeFirstColon(artifact.Name) \o Colon \o tag)
        /\ artifact.Name = BeforeFirstColon(artifact.Name) \o Colon \o tag

\* A run with a tag override that wrote the document and later failed in the
\* Builder
C18_Witness ==
    /\ pc = "exited"
    /\ exitCode = 1
    /\ tag = V2
    /\ Succeeded("ModifyConfig")
    /\ Called("nixcmd.Build")
    /\ ~Succeeded("nixcmd.Build")
    /\ docWrites = 1
    /\ DocumentNames(AppV2)

\* The calls that are given the image name
Named == {"GenerateArtifcats"} \cup Distribution

\* The Name bsf.hcl now holds for the artifact the requested label selects
PersistedName ==
    LET arts == ReadConfig(disk).OCIArtifact
        k == CHOOSE i \in 1..Len(arts) :
                /\ arts[i].Artifact = args[1]
                /\ \A j \in 1..(i - 1) : arts[j].Artifact # args[1]
    IN  arts[k].Name

\* C19: the image name given to GenerateArtifcats and to every distribution
\* branch is the Name of the selected artifact after any tag override: with a
\* tag and without --df-swap it is the name getNewName made (the part before
\* the first ':' of a name, then ':' and the tag), and in every case it is
\* the Name bsf.hcl holds for the artifact of the requested label.
C19_ImageNameConsistent ==
    \A i \in 1..Len(calls) :
        calls[i].op \in Named =>
            /\ calls[i].name = artifact.Name
            /\ tagOverride =>
                /\ \E g \in 1..(i - 1) :
                    /\ calls[g].op = "getNewName"
                    /\ calls[g].name = artifact.Name
                /\ artifact.Name = BeforeFirstColon(artifact.Name) \o Colon \o tag
            /\ PersistedName = artifact.Name
            /\ \E k \in 1..Len(conf.OCIArtifact) : conf.OCIArtifact[k] = artifact

\* A run with a tag override that pushed the image under the new name
C19_Witness ==
    /\ pc = "exited"
    /\ exitCode = 0
    /\ tag = V2
    /\ loadDocker /\ loadPodman /\ push
    /\ \A i \in 1..Len(calls) : calls[i].op \in Named => calls[i].name = AppV2
    /\ PersistedName = AppV2

---------------------------------------------------------------------------
(* Properties of hcl2nix.ModifyConfig, under SpecModify (continued) *)

\* The positions of the artifacts named oldName, and the first of them (0: none)
NamedOld == {i \in 1..Len(InArts) : InArts[i].Name = unitIn.oldName}

FirstNamedOld ==
    IF NamedOld = {} THEN 0 ELSE CHOOSE i \in NamedOld : \A j \in NamedOld : i <= j

\* C16: ModifyConfig replaces at most one entry: the first artifact whose Name
\* is oldName becomes the supplied artifact; every other entry, later ones
\* with the same Name included, the length and order of the list and the
\* other fields of the Config are as they were.
C16_ReplacesFirstMatchOnly ==
    Returned =>
        /\ Len(conf.OCIArtifact) = Len(InArts)
        /\ [conf EXCEPT !.OCIArtifact = InArts] = unitIn.conf
        /\ \A i \in 1..Len(InArts) :
            conf.OCIArtifact[i] = IF i = FirstNamedOld THEN unitIn.artifact ELSE InArts[i]
        /\ Cardinality({i \in 1..Len(InArts) : conf.OCIArtifact[i] # InArts[i]}) <= 1

\* Three artifacts, the first and the last named oldName: the first was
\* replaced and the last was not
C16_Witness ==
    /\ Returned
    /\ Len(InArts) = 3
    /\ NamedOld = {1, 3}
    /\ conf.OCIArtifact[1] = unitIn.artifact
    /\ conf.OCIArtifact[1] # InArts[1]
    /\ conf.OCIArtifact[3] = InArts[3]
    /\ conf.OCIArtifact[3] # unitIn.artifact

---------------------------------------------------------------------------
(* Properties of the tag override run twice, under SpecRerun *)

\* getNewName applied to its own result with the same tag returns that
\* result, for every name and tag of SpecName
NewNameIdempotent ==
    Returned =>
        getNewName([unitIn.artifact EXCEPT !.Name = unitOut.name], unitIn.tag).name
            = unitOut.name

\* C20: the tag override is idempotent: getNewName applied to the name it
\* made, with the same tag, returns that name, and a second run of the
\* override with the same tag, on the document the first run wrote, leaves the
\* artifact list as it was after the first run.
C20_TagOverrideIdempotent ==
    /\ pc \in {"once", "twice"} => getNewName(artifact, unitIn.tag).name = artifact.Name
    /\ pc = "twice" => conf.OCIArtifact = unitOut.first.OCIArtifact

====
